---- MODULE Spec2Model ----
(***************************************************************************)
(* A model of cgrr's FileReader: the two layout grammars (parser.py and    *)
(* offsets_parser.py), the layout compilers (FileReader.__init__ and       *)
(* FileReader.from_offsets) and the codec (FileReader.unpack / pack) on    *)
(* top of a byte-level model of the struct calls they make.                *)
(*                                                                         *)
(* Text is modelled as text: a source is a string, split into lines,       *)
(* lexed character by character and parsed as the code does it.            *)
(***************************************************************************)
EXTENDS Integers, Sequences, FiniteSets, TLC

VARIABLES platform, codec, built, origin, pc, call, res, arg

vars == <<platform, codec, built, origin, pc, call, res, arg>>

(***************************************************************************)
(* Bounds of the model                                                     *)
(***************************************************************************)
\* the buffers handed to unpack hold the bytes 0..MaxByte
MaxByte == 2
\* every buffer of its size is handed to a reader of at most MaxBuf bytes
MaxBuf == 3
\* the byte strings handed to pack hold at most MaxStr bytes
MaxStr == 2
\* the values of the first MaxKeys fields of a dictionary handed to pack vary
MaxKeys == 2

(***************************************************************************)
(* Characters and strings                                                  *)
(***************************************************************************)
Ch(s, i) == SubSeq(s, i, i)

CharsOf(s) == { Ch(s, i) : i \in 1..Len(s) }

Lower == CharsOf("abcdefghijklmnopqrstuvwxyz")
Upper == CharsOf("ABCDEFGHIJKLMNOPQRSTUVWXYZ")
Digit == CharsOf("0123456789")
HexDigit == CharsOf("0123456789abcdefABCDEF")
NameStart == Lower \cup Upper \cup {"_"}
NameChar == NameStart \cup Digit
Blank == {" ", "\t"}

\* the ASCII characters from the space (32) to the underscore (95), and the
\* lower-case letters with the rest (97..126), each in code point order
AsciiLow == " !\"#$%&'()*+,-./0123456789:;<=>?@ABCDEFGHIJKLMNOPQRSTUVWXYZ[\\]^_"
AsciiHigh == "abcdefghijklmnopqrstuvwxyz{|}~"

\* ord(c)
Ord(c) ==
  IF c = "\t" THEN 9
  ELSE IF c = "\n" THEN 10
  ELSE IF c \in CharsOf(AsciiLow) THEN 31 + (CHOOSE i \in 1..Len(AsciiLow) : Ch(AsciiLow, i) = c)
  ELSE 96 + (CHOOSE i \in 1..Len(AsciiHigh) : Ch(AsciiHigh, i) = c)

Min(a, b) == IF a < b THEN a ELSE b
Max(a, b) == IF a > b THEN a ELSE b

\* s[i:] and s[:n] of Python, 1-based here
From(s, i) == SubSeq(s, i, Len(s))
Prefix(s, n) == SubSeq(s, 1, Min(n, Len(s)))

StartsWithAt(s, i, w) == i + Len(w) - 1 <= Len(s) /\ SubSeq(s, i, i + Len(w) - 1) = w

\* the first position >= i whose character is not in cs (Len(s)+1 if none)
RECURSIVE SkipWhile(_, _, _)
SkipWhile(s, i, cs) ==
  IF i <= Len(s) /\ Ch(s, i) \in cs THEN SkipWhile(s, i + 1, cs) ELSE i

\* the first position >= i whose character is in cs (Len(s)+1 if none)
RECURSIVE SkipUntil(_, _, _)
SkipUntil(s, i, cs) ==
  IF i <= Len(s) /\ Ch(s, i) \notin cs THEN SkipUntil(s, i + 1, cs) ELSE i

\* str.strip() for the whitespace the model's texts contain
Strip(s) ==
  LET a == SkipWhile(s, 1, Blank)
      RECURSIVE Back(_)
      Back(j) == IF j >= a /\ Ch(s, j) \in Blank THEN Back(j - 1) ELSE j
  IN SubSeq(s, a, Back(Len(s)))

\* str.splitlines() for texts whose only line break is "\n"
RECURSIVE SplitLinesFrom(_, _)
SplitLinesFrom(s, i) ==
  IF i > Len(s) THEN <<>>
  ELSE LET j == SkipUntil(s, i, {"\n"})
       IN <<SubSeq(s, i, j - 1)>> \o SplitLinesFrom(s, j + 1)

SplitLines(s) == SplitLinesFrom(s, 1)

\* str.split(maxsplit=n): at most n splits on runs of whitespace
RECURSIVE SplitFrom(_, _, _)
SplitFrom(s, i, n) ==
  LET a == SkipWhile(s, i, Blank)
  IN IF a > Len(s) THEN <<>>
     ELSE IF n = 0 THEN <<Strip(From(s, a))>>
     ELSE LET b == SkipUntil(s, a, Blank)
          IN <<SubSeq(s, a, b - 1)>> \o SplitFrom(s, b, n - 1)

Split(s, maxsplit) == SplitFrom(s, 1, maxsplit)

DigitVal(c) == (CHOOSE i \in 1..10 : Ch("0123456789", i) = c) - 1

HexVal(c) ==
  IF c \in Digit THEN DigitVal(c)
  ELSE IF c \in Lower THEN 9 + (CHOOSE i \in 1..6 : Ch("abcdef", i) = c)
  ELSE 9 + (CHOOSE i \in 1..6 : Ch("ABCDEF", i) = c)

\* int(s) and int(s, 16) of a string of digits
RECURSIVE ParseNum(_, _, _)
ParseNum(s, base, acc) ==
  IF s = "" THEN acc
  ELSE ParseNum(From(s, 2), base,
                acc * base + (IF base = 16 THEN HexVal(Ch(s, 1)) ELSE DigitVal(Ch(s, 1))))

\* str(n) for n >= 0
RECURSIVE Str(_)
Str(n) ==
  IF n < 10 THEN Ch("0123456789", n + 1)
  ELSE Str(n \div 10) \o Ch("0123456789", (n % 10) + 1)

\* hex(n)[2:] for n >= 0
RECURSIVE HexDigits(_)
HexDigits(n) ==
  IF n < 16 THEN Ch("0123456789abcdef", n + 1)
  ELSE HexDigits(n \div 16) \o Ch("0123456789abcdef", (n % 16) + 1)

RECURSIVE Repeat(_, _)
Repeat(c, n) == IF n <= 0 THEN "" ELSE c \o Repeat(c, n - 1)

\* '{:0{w}x}'.format(n): zero-padded hex; a negative n keeps its sign in front
FormatHex(n, w) ==
  IF n < 0 THEN "-" \o Repeat("0", w - 1 - Len(HexDigits(0 - n))) \o HexDigits(0 - n)
  ELSE Repeat("0", w - Len(HexDigits(n))) \o HexDigits(n)

\* '{:<{w}}'.format(s): left-justified in a field of width w
LJust(s, w) == s \o Repeat(" ", w - Len(s))

\* s < t for Python strings (code point order)
RECURSIVE StrLess(_, _)
StrLess(s, t) ==
  IF t = "" THEN FALSE
  ELSE IF s = "" THEN TRUE
  ELSE IF Ch(s, 1) = Ch(t, 1) THEN StrLess(From(s, 2), From(t, 2))
  ELSE Ord(Ch(s, 1)) < Ord(Ch(t, 1))

(***************************************************************************)
(* parser.py: the lexer and grammar of the plain layout DSL                *)
(***************************************************************************)
builtin_dict ==
  [k \in {"unknown", "padding", "Uint8", "int8", "Uint16", "int16", "Uint32", "int32",
          "Uint64", "int64", "float", "double", "bool", "char", "string", "pascal_string"} |->
     CASE k = "unknown" -> "s"
       [] k = "padding" -> "x"
       [] k = "Uint8" -> "B"
       [] k = "int8" -> "b"
       [] k = "Uint16" -> "H"
       [] k = "int16" -> "h"
       [] k = "Uint32" -> "I"
       [] k = "int32" -> "i"
       [] k = "Uint64" -> "L"
       [] k = "int64" -> "l"
       [] k = "float" -> "f"
       [] k = "double" -> "d"
       [] k = "bool" -> "?"
       [] k = "char" -> "c"
       [] k = "string" -> "s"
       [] k = "pascal_string" -> "p"]

\* the alternatives of t_BUILTIN's regular expression, in its order; U?int(?:8|16|32|64)
\* is spelled out in the order the regular expression tries its branches
BuiltinAlternatives ==
  <<"unknown", "padding", "Uint8", "Uint16", "Uint32", "Uint64", "int8", "int16", "int32",
    "int64", "float", "double", "bool", "char", "string", "pascal_string">>

\* the text t_BUILTIN matches at position i of s ("" when it does not match): the
\* first alternative that matches, not the longest
t_BUILTIN(s, i) ==
  LET hits == { k \in 1..Len(BuiltinAlternatives) : StartsWithAt(s, i, BuiltinAlternatives[k]) }
  IN IF hits = {} THEN ""
     ELSE BuiltinAlternatives[CHOOSE k \in hits : \A j \in hits : k <= j]

\* \[\d+\]
t_COUNT(s, i) ==
  IF i <= Len(s) /\ Ch(s, i) = "["
  THEN LET j == SkipWhile(s, i + 1, Digit)
       IN IF j > i + 1 /\ j <= Len(s) /\ Ch(s, j) = "]" THEN SubSeq(s, i, j) ELSE ""
  ELSE ""

\* [A-Za-z_][A-Za-z0-9_]*
t_NAME(s, i) ==
  IF i <= Len(s) /\ Ch(s, i) \in NameStart
  THEN SubSeq(s, i, SkipWhile(s, i + 1, NameChar) - 1)
  ELSE ""

\* [@=<>!]
t_BYTE_ORDER(s, i) == IF i <= Len(s) /\ Ch(s, i) \in {"@", "=", "<", ">", "!"} THEN Ch(s, i) ELSE ""

\* \#.*
t_ignore_COMMENT(s, i) == IF i <= Len(s) /\ Ch(s, i) = "#" THEN From(s, i) ELSE ""

Token(type, text, num) == [type |-> type, s |-> text, n |-> num]

\* The tokens of one line, as the parser pulls them: characters of t_ignore are
\* skipped, then the rules are tried in ply's order (functions as defined, then
\* string rules by decreasing length of their expressions). bad: t_error raised
\* after the tokens listed.
RECURSIVE cgrr_lexer(_, _)
cgrr_lexer(s, i) ==
  LET a == SkipWhile(s, i, Blank)
      more(tok, len) ==
        LET rest == cgrr_lexer(s, a + len)
        IN [toks |-> <<tok>> \o rest.toks, bad |-> rest.bad]
  IN IF a > Len(s) THEN [toks |-> <<>>, bad |-> FALSE]
     ELSE IF t_BUILTIN(s, a) # ""
       THEN more(Token("BUILTIN", builtin_dict[t_BUILTIN(s, a)], 0), Len(t_BUILTIN(s, a)))
     ELSE IF t_COUNT(s, a) # ""
       THEN more(Token("COUNT", "", ParseNum(SubSeq(t_COUNT(s, a), 2, Len(t_COUNT(s, a)) - 1), 10, 0)),
                 Len(t_COUNT(s, a)))
     ELSE IF t_NAME(s, a) # ""
       THEN more(Token("NAME", t_NAME(s, a), 0), Len(t_NAME(s, a)))
     ELSE IF t_BYTE_ORDER(s, a) # ""
       THEN more(Token("BYTE_ORDER", t_BYTE_ORDER(s, a), 0), 1)
     ELSE IF t_ignore_COMMENT(s, a) # ""
       THEN cgrr_lexer(s, a + Len(t_ignore_COMMENT(s, a)))
     ELSE [toks |-> <<>>, bad |-> TRUE]

Types(toks) == [k \in 1..Len(toks) |-> toks[k].type]

\* the sequences of token types the grammar of parser.py derives
cgrr_sentences ==
  { <<"BYTE_ORDER">>, <<"BUILTIN", "NAME">>, <<"BUILTIN", "COUNT", "NAME">>,
    <<"NAME", "NAME">>, <<"NAME", "COUNT", "NAME">> }

IsPrefixOf(p, q) == Len(p) <= Len(q) /\ SubSeq(q, 1, Len(p)) = p

\* What the generated parser raises on a token stream that is no sentence: p_error
\* is called with the first token that extends no sentence (it raises ValueError),
\* a character no rule matches makes t_error raise ValueError, and at the end of
\* the input p_error is called with None, where p.lexer raises AttributeError.
ParseError(lexed, sentences) ==
  LET ty == Types(lexed.toks)
      viable(k) == \E q \in sentences : IsPrefixOf(SubSeq(ty, 1, k), q)
  IN IF \E k \in 1..Len(ty) : ~viable(k) THEN "ValueError"
     ELSE IF lexed.bad THEN "ValueError"
     ELSE "AttributeError"

Failure(e) == [ok |-> FALSE, err |-> e, kind |-> "", name |-> "", fmt |-> "", bo |-> ""]

\* p_builtin_variable
p_builtin_variable(toks) ==
  IF Len(toks) = 2
  THEN [ok |-> TRUE, err |-> "", kind |-> "_BUILTIN", name |-> toks[2].s, fmt |-> toks[1].s, bo |-> ""]
  ELSE [ok |-> TRUE, err |-> "", kind |-> "_BUILTIN", name |-> toks[3].s,
        fmt |-> Str(toks[2].n) \o toks[1].s, bo |-> ""]

\* p_userdef_variable
p_userdef_variable(toks) ==
  IF Len(toks) = 2
  THEN [ok |-> TRUE, err |-> "", kind |-> toks[1].s, name |-> toks[2].s, fmt |-> "s", bo |-> ""]
  ELSE [ok |-> TRUE, err |-> "", kind |-> toks[1].s, name |-> toks[3].s,
        fmt |-> Str(toks[2].n) \o "s", bo |-> ""]

\* p_byteorder
p_byteorder(toks) ==
  [ok |-> TRUE, err |-> "", kind |-> "_BYTE_ORDER", name |-> "", fmt |-> "", bo |-> toks[1].s]

\* cgrr_parser.parse(line, lexer=cgrr_lexer)
cgrr_parser(line) ==
  LET lexed == cgrr_lexer(line, 1)
      ty == Types(lexed.toks)
  IN IF lexed.bad \/ ty \notin cgrr_sentences THEN Failure(ParseError(lexed, cgrr_sentences))
     ELSE IF ty[1] = "BYTE_ORDER" THEN p_byteorder(lexed.toks)
     ELSE IF ty[1] = "BUILTIN" THEN p_builtin_variable(lexed.toks)
     ELSE p_userdef_variable(lexed.toks)

\* The grammar of the legacy module src/cgrr.py: it has the same lexer rules and
\* the same variable and byte_order rules, but no statement rule, so its start
\* symbol is its first rule's, variable, and a byte order line is no sentence.
legacy_sentences ==
  { <<"BUILTIN", "NAME">>, <<"BUILTIN", "COUNT", "NAME">>, <<"NAME", "NAME">>,
    <<"NAME", "COUNT", "NAME">> }

\* parser.parse(line) of the legacy module; its p_error raises ValueError for
\* every syntax error, the one at the end of the input included
legacy_parser(line) ==
  LET lexed == cgrr_lexer(line, 1)
      ty == Types(lexed.toks)
  IN IF lexed.bad \/ ty \notin legacy_sentences THEN Failure("ValueError")
     ELSE IF ty[1] = "BUILTIN" THEN p_builtin_variable(lexed.toks)
     ELSE p_userdef_variable(lexed.toks)

(***************************************************************************)
(* offsets_parser.py: the lexer and grammar of the offset DSL              *)
(***************************************************************************)
\* 0x[0-9A-Fa-f]+
t_OFFSET(s, i) ==
  IF StartsWithAt(s, i, "0x") /\ SkipWhile(s, i + 2, HexDigit) > i + 2
  THEN SubSeq(s, i, SkipWhile(s, i + 2, HexDigit) - 1)
  ELSE ""

\* .+
t_PLAIN_STATEMENT(s, i) == IF i <= Len(s) THEN From(s, i) ELSE ""

RECURSIVE offsets_lexer(_, _)
offsets_lexer(s, i) ==
  LET a == SkipWhile(s, i, Blank)
      more(tok, len) ==
        LET rest == offsets_lexer(s, a + len)
        IN [toks |-> <<tok>> \o rest.toks, bad |-> rest.bad]
  IN IF a > Len(s) THEN [toks |-> <<>>, bad |-> FALSE]
     ELSE IF t_OFFSET(s, a) # ""
       THEN more(Token("OFFSET", "", ParseNum(From(t_OFFSET(s, a), 3), 16, 0)), Len(t_OFFSET(s, a)))
     ELSE IF t_BYTE_ORDER(s, a) # ""
       THEN more(Token("BYTE_ORDER", t_BYTE_ORDER(s, a), 0), 1)
     ELSE IF t_ignore_COMMENT(s, a) # ""
       THEN offsets_lexer(s, a + Len(t_ignore_COMMENT(s, a)))
     ELSE more(Token("PLAIN_STATEMENT", t_PLAIN_STATEMENT(s, a), 0), Len(t_PLAIN_STATEMENT(s, a)))

offsets_sentences == { <<"OFFSET", "PLAIN_STATEMENT">>, <<"BYTE_ORDER">> }

\* offsets_parser.parse(line, lexer=offsets_lexer): p_statement gives (None, byte
\* order) or (offset, text); none: TRUE stands for the None
offsets_parser(line) ==
  LET lexed == offsets_lexer(line, 1)
      ty == Types(lexed.toks)
  IN IF ty \notin offsets_sentences
     THEN [ok |-> FALSE, err |-> ParseError(lexed, offsets_sentences), none |-> FALSE, offset |-> 0, text |-> ""]
     ELSE IF Len(ty) = 1
     THEN [ok |-> TRUE, err |-> "", none |-> TRUE, offset |-> 0, text |-> lexed.toks[1].s]
     ELSE [ok |-> TRUE, err |-> "", none |-> FALSE, offset |-> lexed.toks[1].n, text |-> lexed.toks[2].s]


(***************************************************************************)
(* Python values, and the struct calls the reader makes                    *)
(*                                                                         *)
(* A value is a record: k its type, n the number of an int or a bool       *)
(* (True is 1), b the bytes of a bytes object (for a float, its IEEE       *)
(* bytes, most significant first), d the items of a dict.                  *)
(***************************************************************************)
PyInt(n) == [k |-> "int", n |-> n, b |-> <<>>, d |-> <<>>]
PyBool(t) == [k |-> "bool", n |-> IF t THEN 1 ELSE 0, b |-> <<>>, d |-> <<>>]
PyBytes(bs) == [k |-> "bytes", n |-> 0, b |-> bs, d |-> <<>>]
PyFloat(bs) == [k |-> "float", n |-> 0, b |-> bs, d |-> <<>>]
PyDict(items) == [k |-> "dict", n |-> 0, b |-> <<>>, d |-> items]
PyNone == [k |-> "none", n |-> 0, b |-> <<>>, d |-> <<>>]

RECURSIVE Zeros(_)
Zeros(n) == IF n <= 0 THEN <<>> ELSE <<0>> \o Zeros(n - 1)

Reverse(q) == [i \in 1..Len(q) |-> q[Len(q) + 1 - i]]

ByteOrders == {"@", "=", "<", ">", "!"}

\* the format characters of struct that the model knows, with their standard sizes
\* (the native-only n, N and P are left out; no layout of the model uses them)
StructCodes == CharsOf("xcbB?hHiIlLqQefdsp")

StdSize(c) ==
  IF c \in CharsOf("xcbB?sp") THEN 1
  ELSE IF c \in CharsOf("hHe") THEN 2
  ELSE IF c \in CharsOf("iIlLf") THEN 4
  ELSE 8

\* the size of one item: '@' (and no prefix at all) takes the C compiler's sizes,
\* where a long is plat.long bytes; the other byte orders take the standard sizes
ItemSize(c, order, plat) ==
  IF order = "@" /\ c \in {"l", "L"} THEN plat.long ELSE StdSize(c)

\* '@' aligns every item to its size; the other byte orders do not align
ItemAlign(c, order, plat) ==
  IF order = "@" /\ c \notin CharsOf("xcbB?sp") THEN ItemSize(c, order, plat) ELSE 1

BigEndian(order, plat) == IF order \in {"@", "="} THEN plat.big ELSE order \in {">", "!"}

\* The items of a format string: an optional byte order character, then repeat
\* counts and format characters, whitespace between them skipped.
RECURSIVE FormatItems(_, _)
FormatItems(f, i) ==
  LET a == SkipWhile(f, i, Blank)
      j == SkipWhile(f, a, Digit)
  IN IF a > Len(f) THEN [ok |-> TRUE, items |-> <<>>]
     ELSE IF j > Len(f) \/ Ch(f, j) \notin StructCodes THEN [ok |-> FALSE, items |-> <<>>]
     ELSE LET rest == FormatItems(f, j + 1)
              num == IF j > a THEN ParseNum(SubSeq(f, a, j - 1), 10, 0) ELSE 1
          IN [ok |-> rest.ok, items |-> <<[n |-> num, c |-> Ch(f, j)]>> \o rest.items]

FormatOrder(f) == IF f # "" /\ Ch(f, 1) \in ByteOrders THEN Ch(f, 1) ELSE "@"

FormatOk(f) ==
  FormatItems(f, IF f # "" /\ Ch(f, 1) \in ByteOrders THEN 2 ELSE 1).ok

\* The byte layout of a format: its segments in order, each [c, size, val]; val
\* tells whether the segment carries a value (pad bytes and alignment do not).
\* An s or p item is one segment of n bytes, any other item is n segments.
RECURSIVE Segments(_, _, _, _)
Segments(items, order, plat, pos) ==
  IF items = <<>> THEN <<>>
  ELSE LET it == Head(items)
           al == ItemAlign(it.c, order, plat)
           gap == (al - (pos % al)) % al
           sz == ItemSize(it.c, order, plat)
           pad == IF gap > 0 THEN <<[c |-> "x", size |-> gap, val |-> FALSE]>> ELSE <<>>
           own == IF it.c = "x" THEN <<[c |-> "x", size |-> it.n, val |-> FALSE]>>
                  ELSE IF it.c \in {"s", "p"} THEN <<[c |-> it.c, size |-> it.n, val |-> TRUE]>>
                  ELSE [k \in 1..it.n |-> [c |-> it.c, size |-> sz, val |-> TRUE]]
           len == IF it.c \in {"x", "s", "p"} THEN it.n ELSE it.n * sz
       IN pad \o own \o Segments(Tail(items), order, plat, pos + gap + len)

StructSegments(f, plat) ==
  Segments(FormatItems(f, IF f # "" /\ Ch(f, 1) \in ByteOrders THEN 2 ELSE 1).items,
           FormatOrder(f), plat, 0)

RECURSIVE SumSizes(_)
SumSizes(segs) == IF segs = <<>> THEN 0 ELSE Head(segs).size + SumSizes(Tail(segs))

\* struct.calcsize(f) / struct.Struct(f).size
calcsize(f, plat) == SumSizes(StructSegments(f, plat))

\* the number of values the format packs and unpacks
RECURSIVE CountValues(_)
CountValues(segs) ==
  IF segs = <<>> THEN 0 ELSE (IF Head(segs).val THEN 1 ELSE 0) + CountValues(Tail(segs))

\* an unsigned number from its bytes, most significant first
RECURSIVE FromBytes(_, _)
FromBytes(bs, acc) == IF bs = <<>> THEN acc ELSE FromBytes(Tail(bs), acc * 256 + Head(bs))

\* the size low bytes of a number in two's complement, most significant first
\* (\div rounds down and % is never negative)
RECURSIVE ToBytes(_, _)
ToBytes(n, size) == IF size = 0 THEN <<>> ELSE ToBytes(n \div 256, size - 1) \o <<n % 256>>

Signed(c) == c \in CharsOf("bhilq")

\* n >> (8 * k)
RECURSIVE ShiftBytes(_, _)
ShiftBytes(n, k) == IF k = 0 THEN n ELSE ShiftBytes(n \div 256, k - 1)

\* whether the integer n fits an item of the given size (the model's numbers are
\* below 2^31, so this is spelled without the powers of 256)
Fits(n, size, signed) ==
  IF signed THEN ShiftBytes(IF n < 0 THEN 0 - n - 1 ELSE n, size - 1) < 128
  ELSE n >= 0 /\ ShiftBytes(n, size) = 0

\* the value one segment unpacks to
DecodeSegment(seg, bs, big) ==
  LET msb == IF big THEN bs ELSE Reverse(bs)
  IN IF seg.c \in {"c", "s"} THEN PyBytes(bs)
     ELSE IF seg.c = "p"
       THEN PyBytes(SubSeq(bs, 2, 1 + Min(bs[1], seg.size - 1)))
     ELSE IF seg.c = "?" THEN PyBool(bs[1] # 0)
     ELSE IF seg.c \in CharsOf("efd") THEN PyFloat(msb)
     ELSE IF Signed(seg.c) /\ msb[1] >= 128 THEN PyInt(FromBytes(Tail(msb), msb[1] - 256))
     ELSE PyInt(FromBytes(msb, 0))

\* bool(v)
Truthy(v) ==
  CASE v.k \in {"int", "bool"} -> v.n # 0
    [] v.k = "bytes" -> v.b # <<>>
    [] v.k = "dict" -> v.d # <<>>
    [] v.k = "float" -> \E i \in 1..Len(v.b) : v.b[i] # 0 /\ ~(i = 1 /\ v.b[i] = 128)
    [] OTHER -> FALSE

\* A faulty PackString that writes the byte string as it is, whatever its length
\* (C8 fails with it).
PackStringAsIs(bs, size) == bs

\* the bytes an s item of the given size holds for a byte string: struct cuts a
\* longer string and fills a shorter one with zero bytes
PackString(bs, size) == Prefix(bs, size) \o Zeros(size - Len(bs))

\* the bytes one segment packs a value to, or the struct.error it raises
EncodeSegment(seg, v, big) ==
  LET put(msb) == [ok |-> TRUE, bytes |-> IF big THEN msb ELSE Reverse(msb)]
      raw(bs) == [ok |-> TRUE, bytes |-> bs]
      bad == [ok |-> FALSE, bytes |-> <<>>]
  IN IF seg.c = "c"
       THEN IF v.k = "bytes" /\ Len(v.b) = 1 THEN raw(v.b) ELSE bad
     ELSE IF seg.c = "s"
       THEN IF v.k = "bytes"
            THEN raw(PackString(v.b, seg.size))
            ELSE bad
     ELSE IF seg.c = "p"
       THEN IF v.k = "bytes" /\ seg.size > 0
            THEN LET n == Min(Len(v.b), seg.size - 1)
                 IN raw(<<Min(n, 255)>> \o Prefix(v.b, n) \o Zeros(seg.size - 1 - n))
            ELSE IF v.k = "bytes" THEN raw(<<>>) ELSE bad
     ELSE IF seg.c = "?" THEN raw(<<IF Truthy(v) THEN 1 ELSE 0>>)
     ELSE IF seg.c \in CharsOf("efd")
       THEN IF v.k = "float" /\ Len(v.b) = seg.size THEN put(v.b) ELSE bad
     ELSE IF v.k \in {"int", "bool"} /\ Fits(v.n, seg.size, Signed(seg.c))
       THEN put(ToBytes(v.n, seg.size))
     ELSE bad

RECURSIVE UnpackSegments(_, _, _)
UnpackSegments(segs, data, big) ==
  IF segs = <<>> THEN <<>>
  ELSE LET g == Head(segs)
           rest == UnpackSegments(Tail(segs), SubSeq(data, g.size + 1, Len(data)), big)
       IN IF g.val THEN <<DecodeSegment(g, SubSeq(data, 1, g.size), big)>> \o rest ELSE rest

\* A faulty struct_unpack that cuts a longer buffer and fills a shorter one with
\* zero bytes instead of raising (C6 fails with it).
UnpackAnyLength(f, plat, data) ==
  LET segs == StructSegments(f, plat)
      size == SumSizes(segs)
  IN [ok |-> TRUE, err |-> "",
      vals |-> UnpackSegments(segs, Prefix(data, size) \o Zeros(size - Len(data)),
                              BigEndian(FormatOrder(f), plat))]

\* struct.Struct(f).unpack(data): the tuple of values, or struct.error when the
\* buffer is not of the struct's size
struct_unpack(f, plat, data) ==
  LET segs == StructSegments(f, plat)
  IN IF Len(data) # SumSizes(segs) THEN [ok |-> FALSE, err |-> "struct.error", vals |-> <<>>]
     ELSE IF \E k \in 1..Len(segs) : segs[k].c = "p" /\ segs[k].size = 0
       THEN [ok |-> FALSE, err |-> "SystemError", vals |-> <<>>]
     ELSE [ok |-> TRUE, err |-> "", vals |-> UnpackSegments(segs, data, BigEndian(FormatOrder(f), plat))]

RECURSIVE PackSegments(_, _, _)
PackSegments(segs, vals, big) ==
  IF segs = <<>> THEN [ok |-> TRUE, bytes |-> <<>>]
  ELSE LET g == Head(segs)
       IN IF ~g.val
          THEN LET rest == PackSegments(Tail(segs), vals, big)
               IN [ok |-> rest.ok, bytes |-> Zeros(g.size) \o rest.bytes]
          ELSE LET e == EncodeSegment(g, Head(vals), big)
                   rest == PackSegments(Tail(segs), Tail(vals), big)
               IN IF ~e.ok THEN e ELSE [ok |-> rest.ok, bytes |-> e.bytes \o rest.bytes]

\* struct.Struct(f).pack(*vals): the bytes, or struct.error when the number of
\* values is not the number the format takes or a value does not fit its item
struct_pack(f, plat, vals) ==
  LET segs == StructSegments(f, plat)
      packed == PackSegments(segs, vals, BigEndian(FormatOrder(f), plat))
  IN IF Len(vals) # CountValues(segs) \/ ~packed.ok
     THEN [ok |-> FALSE, err |-> "struct.error", bytes |-> <<>>]
     ELSE [ok |-> TRUE, err |-> "", bytes |-> packed.bytes]


(***************************************************************************)
(* Dictionaries: the items in insertion order, as Python keeps them        *)
(***************************************************************************)
Keys(d) == [i \in 1..Len(d) |-> d[i][1]]
Values(d) == [i \in 1..Len(d) |-> d[i][2]]
KeySet(d) == { d[i][1] : i \in 1..Len(d) }
Has(d, k) == \E i \in 1..Len(d) : d[i][1] = k
Get(d, k) == d[CHOOSE i \in 1..Len(d) : d[i][1] = k][2]

\* d[k] = v: a key already there keeps its place
Put(d, k, v) ==
  IF Has(d, k) THEN [i \in 1..Len(d) |-> IF d[i][1] = k THEN <<k, v>> ELSE d[i]]
  ELSE Append(d, <<k, v>>)

\* dict(pairs) and OrderedDict(pairs)
RECURSIVE DictOf(_, _)
DictOf(pairs, acc) ==
  IF pairs = <<>> THEN acc ELSE DictOf(Tail(pairs), Put(acc, Head(pairs)[1], Head(pairs)[2]))

\* A faulty Zip that pairs the names with the values taken from the last to the
\* first (C2 fails with it).
ZipBackwards(a, b) == [i \in 1..Min(Len(a), Len(b)) |-> <<a[i], b[Len(b) + 1 - i]>>]

\* zip(a, b) stops at the shorter of the two
Zip(a, b) == [i \in 1..Min(Len(a), Len(b)) |-> <<a[i], b[i]>>]

RECURSIVE Join(_)
Join(strs) == IF strs = <<>> THEN "" ELSE Head(strs) \o Join(Tail(strs))

\* a == b for two Python values (True == 1, and dicts compare without order)
RECURSIVE PyEq(_, _)
PyEq(v, w) ==
  IF v.k \in {"int", "bool"} /\ w.k \in {"int", "bool"} THEN v.n = w.n
  ELSE IF v.k # w.k THEN FALSE
  ELSE IF v.k = "dict"
    THEN /\ KeySet(v.d) = KeySet(w.d)
         /\ \A k \in KeySet(v.d) : PyEq(Get(v.d, k), Get(w.d, k))
  ELSE v.b = w.b

DictEq(d, e) == PyEq(PyDict(d), PyDict(e))

(***************************************************************************)
(* The functions a caller gives as hooks                                   *)
(***************************************************************************)
\* bytes.strip(b'\x00')
StripNul(bs) ==
  LET nz == { i \in 1..Len(bs) : bs[i] # 0 }
  IN IF nz = {} THEN <<>>
     ELSE SubSeq(bs, CHOOSE i \in nz : \A j \in nz : i <= j, CHOOSE i \in nz : \A j \in nz : i >= j)

Returned(v) == [ok |-> TRUE, err |-> "", val |-> v]
Raised(e) == [ok |-> FALSE, err |-> e, val |-> PyNone]

\* fn(v) for the functions of the model:
\*   identity   lambda x: x, the default of FileReader.__init__
\*   strip_nul  lambda s: s.strip(b'\x00'), the docstring's example
\*   reverse    lambda s: s[::-1]
\*   twice      lambda s: s + s
\*   fail       a function that raises ValueError
CallFunction(fn, v) ==
  CASE fn = "identity" -> Returned(v)
    [] fn = "strip_nul" -> IF v.k = "bytes" THEN Returned(PyBytes(StripNul(v.b))) ELSE Raised("AttributeError")
    [] fn = "reverse" -> IF v.k = "bytes" THEN Returned(PyBytes(Reverse(v.b))) ELSE Raised("TypeError")
    [] fn = "twice" ->
         IF v.k = "bytes" THEN Returned(PyBytes(v.b \o v.b))
         ELSE IF v.k \in {"int", "bool"} THEN Returned(PyInt(v.n + v.n))
         ELSE Raised("TypeError")
    [] OTHER -> Raised("ValueError")

Function(fn) == [callable |-> TRUE, fn |-> fn, reader |-> <<>>, order |-> ""]

\* a FileReader used as a hook: the reader made of a 1.1 style field list and a
\* byte order, with no hooks of its own
Reader(fields, order) == [callable |-> FALSE, fn |-> "", reader |-> fields, order |-> order]

\* lambda x: x
Identity == Function("identity")

(***************************************************************************)
(* FileReader                                                              *)
(***************************************************************************)
\* x[:7] != 'padding'
NotPadding(x) == Prefix(x, 7) # "padding"

\* filter(lambda x: x[:7] != 'padding', keys)
RECURSIVE FilterNotPadding(_)
FilterNotPadding(keys) ==
  IF keys = <<>> THEN <<>>
  ELSE (IF NotPadding(Head(keys)) THEN <<Head(keys)>> ELSE <<>>) \o FilterNotPadding(Tail(keys))

NoCodec == [format |-> <<>>, byte_order |-> "", fmt |-> "", massage_in |-> <<>>, massage_out |-> <<>>]

\* self, with the attributes the constructor sets
Codec(format, byte_order, fmt, massage_in, massage_out) ==
  [NoCodec EXCEPT !.format = format, !.byte_order = byte_order, !.fmt = fmt,
                  !.massage_in = massage_in, !.massage_out = massage_out]

NoReader == [ok |-> FALSE, err |-> "", codec |-> NoCodec]

Built(c) == [NoReader EXCEPT !.ok = TRUE, !.codec = c]
NotBuilt(e) == [NoReader EXCEPT !.err = e]

\* gs.get(name, lambda x: x)
ScopeGet(gs, name) == IF Has(gs, name) THEN Get(gs, name) ELSE Identity

\* The loop of FileReader.__init__ over the lines of a format text. acc holds f,
\* massage_in, massage_out and byte_order; the first line that fails to parse
\* ends the construction with its exception.
RECURSIVE InitLines(_, _, _)
InitLines(lines, gs, acc) ==
  IF lines = <<>> THEN acc
  ELSE IF Strip(Head(lines)) = "" THEN InitLines(Tail(lines), gs, acc)
  ELSE LET r == cgrr_parser(Strip(Head(lines)))
       IN IF ~r.ok THEN [acc EXCEPT !.err = r.err]
          ELSE IF r.kind = "_BUILTIN"
            THEN InitLines(Tail(lines), gs, [acc EXCEPT !.f = Append(@, <<r.name, r.fmt>>)])
          ELSE IF r.kind = "_BYTE_ORDER"
            THEN InitLines(Tail(lines), gs, [acc EXCEPT !.byte_order = r.bo])
          ELSE InitLines(Tail(lines), gs,
                 [acc EXCEPT !.massage_in = Put(@, r.name, ScopeGet(gs, "parse_" \o r.kind)),
                             !.massage_out = Put(@, r.name, ScopeGet(gs, "unparse_" \o r.kind)),
                             !.f = Append(@, <<r.name, r.fmt>>)])

InitAcc == [f |-> <<>>, massage_in |-> <<>>, massage_out |-> <<>>, byte_order |-> "<", err |-> ""]

\* FileReader(format) for a format text; gs is f_globals of the frame that calls
\* the constructor. struct.Struct raises struct.error on a format it cannot read.
FileReader_text(format, gs) ==
  LET acc == InitLines(SplitLines(format), gs, InitAcc)
      fields == DictOf(acc.f, <<>>)
      fmt == acc.byte_order \o Join(Values(fields))
  IN IF acc.err # "" THEN NotBuilt(acc.err)
     ELSE IF ~FormatOk(fmt) THEN NotBuilt("struct.error")
     ELSE Built(Codec(fields, acc.byte_order, fmt, acc.massage_in, acc.massage_out))

\* FileReader(format, massage_in, massage_out, byte_order) for a cgrr 1.1 style
\* list of (name, format string) pairs; a massage_in or massage_out of None is
\* modelled as the empty dictionary, which the code cannot tell from it
FileReader_list(format, massage_in, massage_out, byte_order) ==
  LET fields == DictOf(format, <<>>)
      fmt == byte_order \o Join(Values(fields))
  IN IF ~FormatOk(fmt) THEN NotBuilt("struct.error")
     ELSE Built(Codec(fields, byte_order, fmt, massage_in, massage_out))


\* The loop of the legacy module's FileReader.__init__: a line is skipped only
\* when it is empty, and is parsed as it stands.
RECURSIVE LegacyInitLines(_, _, _)
LegacyInitLines(lines, gs, acc) ==
  IF lines = <<>> THEN acc
  ELSE IF Head(lines) = "" THEN LegacyInitLines(Tail(lines), gs, acc)
  ELSE LET r == legacy_parser(Head(lines))
       IN IF ~r.ok THEN [acc EXCEPT !.err = r.err]
          ELSE IF r.kind = "_BUILTIN"
            THEN LegacyInitLines(Tail(lines), gs, [acc EXCEPT !.f = Append(@, <<r.name, r.fmt>>)])
          ELSE IF r.kind = "_BYTE_ORDER"
            THEN LegacyInitLines(Tail(lines), gs, [acc EXCEPT !.byte_order = r.bo])
          ELSE LegacyInitLines(Tail(lines), gs,
                 [acc EXCEPT !.massage_in = Put(@, r.name, ScopeGet(gs, "parse_" \o r.kind)),
                             !.massage_out = Put(@, r.name, ScopeGet(gs, "unparse_" \o r.kind)),
                             !.f = Append(@, <<r.name, r.fmt>>)])

\* FileReader(format, byte_order=byte_order) of the legacy module src/cgrr.py for a
\* format text: the format string takes the argument, not self.byte_order
LegacyFileReader_text(format, byte_order, gs) ==
  LET acc == LegacyInitLines(SplitLines(format), gs, InitAcc)
      fields == DictOf(acc.f, <<>>)
      fmt == byte_order \o Join(Values(fields))
  IN IF acc.err # "" THEN NotBuilt(acc.err)
     ELSE IF ~FormatOk(fmt) THEN NotBuilt("struct.error")
     ELSE Built(Codec(fields, acc.byte_order, fmt, acc.massage_in, acc.massage_out))

\* the names of the globals of the module cgrr.cgrr: f_globals of the frame of
\* from_offsets, in which no name starts with parse_ or unparse_
cgrr_globals ==
  [i \in 1..16 |->
     <<(<<"os", "hashlib", "struct", "inspect", "logging", "namedtuple", "OrderedDict",
          "cgrr_lexer", "cgrr_parser", "offsets_lexer", "offsets_parser", "logger", "verify",
          "File", "FileReader", "UnsupportedSoftwareException">>)[i],
       [callable |-> FALSE, fn |-> "", reader |-> <<>>, order |-> ""]>>]

\* The first loop of from_offsets: the byte order lines set new_format, the
\* others are collected as (offset, text) statements.
RECURSIVE OffsetLines(_, _)
OffsetLines(lines, acc) ==
  IF lines = <<>> THEN acc
  ELSE IF Strip(Head(lines)) = "" THEN OffsetLines(Tail(lines), acc)
  ELSE LET r == offsets_parser(Strip(Head(lines)))
       IN IF ~r.ok THEN [acc EXCEPT !.err = r.err]
          ELSE IF r.none THEN OffsetLines(Tail(lines), [acc EXCEPT !.new_format = r.text \o "\n"])
          ELSE OffsetLines(Tail(lines), [acc EXCEPT !.statements = Append(@, <<r.offset, r.text>>)])

\* A faulty TupleLess that looks at the offsets alone, which makes the sort keep
\* the statements of one offset in the order of the text (C16 fails with it).
OffsetLess(s, t) == s[1] < t[1]

\* s < t for two (offset, text) tuples
TupleLess(s, t) == s[1] < t[1] \/ (s[1] = t[1] /\ StrLess(s[2], t[2]))

\* A faulty Sort that leaves the statements in the order of the text (C5 fails
\* with it).
Unsorted(statements) == statements

\* list.sort() of the statements: a stable sort by the tuples' own order
RECURSIVE Insert(_, _)
Insert(sorted, x) ==
  IF sorted = <<>> THEN <<x>>
  ELSE IF TupleLess(x, Head(sorted)) THEN <<x>> \o sorted
  ELSE <<Head(sorted)>> \o Insert(Tail(sorted), x)

RECURSIVE SortFrom(_, _)
SortFrom(q, acc) == IF q = <<>> THEN acc ELSE SortFrom(Tail(q), Insert(acc, Head(q)))

Sort(statements) == SortFrom(statements, <<>>)

\* '# 0x{start:0{mow}x}-0x{end:0{mow}x}'
PositionComment(start, end, mow) == "# 0x" \o FormatHex(start, mow) \o "-0x" \o FormatHex(end, mow)

\* the unknown field from_offsets puts before statement s when s[0] > position
GapLine(s, w) ==
  <<"unknown[" \o Str(s[1] - w.position) \o "]",
    "unk" \o Str(w.unknowns + 1),
    PositionComment(w.position, s[1] - 1, w.mow)>>

\* The walk of from_offsets over the sorted statements. w holds position,
\* unknowns, new_lines and max_offset_width (mow); plat decides struct.calcsize,
\* which is called on a format without a byte order and so counts native sizes.
RECURSIVE Walk(_, _, _)
Walk(statements, w, plat) ==
  IF statements = <<>> THEN w
  ELSE LET s == Head(statements)
           g == IF s[1] > w.position
                THEN [w EXCEPT !.unknowns = @ + 1,
                               !.new_lines = Append(@, GapLine(s, w)),
                               !.position = s[1]]
                ELSE w
           stmt == Split(s[2], 2)
           r == cgrr_parser(s[2])
           stmt_size == calcsize(r.fmt, plat)
           position_comment == PositionComment(g.position, g.position + stmt_size - 1, g.mow)
       IN IF Strip(s[2]) = "EOF" THEN g
          ELSE IF ~r.ok THEN [g EXCEPT !.err = r.err]
          ELSE IF r.kind = "_BYTE_ORDER" THEN [g EXCEPT !.err = "IndexError"]
          ELSE IF Len(stmt) = 1 THEN [g EXCEPT !.err = "IndexError"]
          ELSE Walk(Tail(statements),
                    [g EXCEPT !.new_lines =
                                Append(@, IF Len(stmt) = 2 THEN Append(stmt, position_comment)
                                          ELSE <<stmt[1], stmt[2],
                                                 position_comment \o ": " \o Strip(From(stmt[3], 2))>>),
                              !.position = @ + stmt_size],
                    plat)

RECURSIVE MaxLen(_, _)
MaxLen(new_lines, k) ==
  IF new_lines = <<>> THEN 0 ELSE Max(Len(Head(new_lines)[k]), MaxLen(Tail(new_lines), k))

\* "{left:<{max_left}} {mid:<{max_mid}} {right}\n" for every line of new_lines
RECURSIVE FormatLines(_, _, _)
FormatLines(new_lines, max_left, max_mid) ==
  IF new_lines = <<>> THEN ""
  ELSE LJust(Head(new_lines)[1], max_left) \o " " \o LJust(Head(new_lines)[2], max_mid) \o " "
       \o Head(new_lines)[3] \o "\n" \o FormatLines(Tail(new_lines), max_left, max_mid)

\* The plain DSL text from_offsets lowers format_def to, or the exception raised
\* on the way: hex(statements[-1][0]) of an empty list and max() of no lines.
Lowered(format_def, plat) ==
  LET acc == OffsetLines(SplitLines(format_def), [new_format |-> "<\n", statements |-> <<>>, err |-> ""])
      statements == Sort(acc.statements)
      w == Walk(statements,
                [position |-> 0, unknowns |-> 0, new_lines |-> <<>>, err |-> "",
                 mow |-> Len(HexDigits(statements[Len(statements)][1]))],
                plat)
  IN IF acc.err # "" THEN [ok |-> FALSE, err |-> acc.err, text |-> ""]
     ELSE IF statements = <<>> THEN [ok |-> FALSE, err |-> "IndexError", text |-> ""]
     ELSE IF w.err # "" THEN [ok |-> FALSE, err |-> w.err, text |-> ""]
     ELSE IF w.new_lines = <<>> THEN [ok |-> FALSE, err |-> "ValueError", text |-> ""]
     ELSE [ok |-> TRUE, err |-> "",
           text |-> acc.new_format \o FormatLines(w.new_lines, MaxLen(w.new_lines, 1), MaxLen(w.new_lines, 2))]

\* FileReader.from_offsets(format_def): cls(new_format) is called from the frame
\* of from_offsets, whose globals are those of the module cgrr.cgrr
FileReader_from_offsets(format_def, plat) ==
  LET low == Lowered(format_def, plat)
  IN IF ~low.ok THEN NotBuilt(low.err) ELSE FileReader_text(low.text, cgrr_globals)


Mapping(m) == [ok |-> TRUE, err |-> "", map |-> m, bytes |-> <<>>]
Buffer(bs) == [ok |-> TRUE, err |-> "", map |-> <<>>, bytes |-> bs]
Exception(e) == [ok |-> FALSE, err |-> e, map |-> <<>>, bytes |-> <<>>]

\* the reader a Reader hook stands for
HookReader(h) == FileReader_list(h.reader, <<>>, <<>>, h.order).codec

\* FileReader.unpack(data): the dictionary, or the exception raised
RECURSIVE FileReader_unpack(_, _, _)

\* The loop of unpack over the keys of the dictionary, applying massage_in: a
\* function is called, any other object has its unpack method called.
RECURSIVE MassageIn(_, _, _, _)
MassageIn(self, keys, dictionary, plat) ==
  IF keys = <<>> THEN Mapping(dictionary)
  ELSE LET k == Head(keys)
           h == Get(self.massage_in, k)
           v == Get(dictionary, k)
           sub == IF v.k = "bytes" THEN FileReader_unpack(HookReader(h), v.b, plat)
                  ELSE Exception("TypeError")
           got == IF h.callable THEN CallFunction(h.fn, v)
                  ELSE IF sub.ok THEN Returned(PyDict(sub.map)) ELSE Raised(sub.err)
       IN IF ~Has(self.massage_in, k) THEN MassageIn(self, Tail(keys), dictionary, plat)
          ELSE IF ~got.ok THEN Exception(got.err)
          ELSE MassageIn(self, Tail(keys), Put(dictionary, k, got.val), plat)

FileReader_unpack(self, data, plat) ==
  LET u == struct_unpack(self.fmt, plat, data)
      dictionary == DictOf(Zip(FilterNotPadding(Keys(self.format)), u.vals), <<>>)
  IN IF ~u.ok THEN Exception(u.err)
     ELSE IF self.massage_in # <<>> THEN MassageIn(self, Keys(dictionary), dictionary, plat)
     ELSE Mapping(dictionary)

\* FileReader.pack(dictionary): the bytes, or the exception raised
RECURSIVE FileReader_pack(_, _, _)

\* The loop of pack over the keys of the dictionary, filling out.
RECURSIVE MassageOut(_, _, _, _, _)
MassageOut(self, keys, dictionary, out, plat) ==
  IF keys = <<>> THEN Mapping(out)
  ELSE LET k == Head(keys)
           h == Get(self.massage_out, k)
           v == Get(dictionary, k)
           sub == IF v.k = "dict" THEN FileReader_pack(HookReader(h), v.d, plat)
                  ELSE Exception("TypeError")
           got == IF h.callable THEN CallFunction(h.fn, v)
                  ELSE IF sub.ok THEN Returned(PyBytes(sub.bytes)) ELSE Raised(sub.err)
       IN IF ~Has(self.massage_out, k)
          THEN MassageOut(self, Tail(keys), dictionary, Put(out, k, v), plat)
          ELSE IF ~got.ok THEN Exception(got.err)
          ELSE MassageOut(self, Tail(keys), dictionary, Put(out, k, got.val), plat)

\* A faulty Lookup that takes 0 for a key the dictionary lacks (C7 fails with it).
RECURSIVE LookupOrZero(_, _)
LookupOrZero(out, keys) ==
  IF keys = <<>> THEN [ok |-> TRUE, vals |-> <<>>]
  ELSE LET rest == LookupOrZero(out, Tail(keys))
       IN [ok |-> rest.ok,
           vals |-> <<IF Has(out, Head(keys)) THEN Get(out, Head(keys)) ELSE PyInt(0)>> \o rest.vals]

\* vals = [out[key] for key in the keys that are not padding]
RECURSIVE Lookup(_, _)
Lookup(out, keys) ==
  IF keys = <<>> THEN [ok |-> TRUE, vals |-> <<>>]
  ELSE IF ~Has(out, Head(keys)) THEN [ok |-> FALSE, vals |-> <<>>]
  ELSE LET rest == Lookup(out, Tail(keys))
       IN [ok |-> rest.ok, vals |-> <<Get(out, Head(keys))>> \o rest.vals]

\* A faulty FileReader.pack that does not apply massage_out (C1 fails with it).
PackUnhooked(self, dictionary, plat) ==
  LET vals == Lookup(dictionary, FilterNotPadding(Keys(self.format)))
      packed == struct_pack(self.fmt, plat, vals.vals)
  IN IF ~vals.ok THEN Exception("KeyError")
     ELSE IF ~packed.ok THEN Exception(packed.err)
     ELSE Buffer(packed.bytes)

FileReader_pack(self, dictionary, plat) ==
  LET out == IF self.massage_out # <<>>
             THEN MassageOut(self, Keys(dictionary), dictionary, <<>>, plat)
             ELSE Mapping(dictionary)
      vals == Lookup(out.map, FilterNotPadding(Keys(self.format)))
      packed == struct_pack(self.fmt, plat, vals.vals)
  IN IF ~out.ok THEN out
     ELSE IF ~vals.ok THEN Exception("KeyError")
     ELSE IF ~packed.ok THEN Exception(packed.err)
     ELSE Buffer(packed.bytes)

\* A faulty pack that fills the caller's dictionary instead of a new one: the
\* caller's dictionary holds what the hooks returned (C15 fails with it).
PackInPlace(self, dictionary, plat) ==
  LET out == MassageOut(self, Keys(dictionary), dictionary, dictionary, plat)
  IN IF self.massage_out # <<>> /\ out.ok THEN out.map ELSE dictionary

\* The caller's dictionary as pack leaves it. With hooks, out is a new
\* dictionary and the loop writes to it alone; without, out is the caller's
\* dictionary itself, and no line writes to it.
DictionaryAfterPack(self, dictionary, plat) ==
  LET out == IF self.massage_out # <<>> THEN <<>> ELSE dictionary
  IN IF self.massage_out # <<>> THEN dictionary ELSE out


(***************************************************************************)
(* The inputs of the model                                                 *)
(***************************************************************************)
\* the machines the code runs on: the size of a C long, and the byte order
Platforms == { [long |-> 8, big |-> FALSE], [long |-> 4, big |-> FALSE] }

\* the globals of the modules that build readers
NoHooks == <<>>
Reversing == << <<"parse_opt", Function("reverse")>>, <<"unparse_opt", Function("reverse")>> >>
Stripping == << <<"parse_opt", Function("strip_nul")>> >>
Doubling == << <<"unparse_opt", Function("twice")>> >>
Failing == << <<"parse_opt", Function("fail")>>, <<"unparse_opt", Function("strip_nul")>> >>

In(gs, texts) == { [format |-> t, gs |-> gs] : t \in texts }

\* the calls of FileReader(format): format texts of the plain DSL, and the
\* globals of the calling module
Texts ==
  In(NoHooks,
     { "Uint8 a\nUint16 b",
       "\n>\nUint16   a  # big-endian\n\nbool[1] f\n",
       "opt[2] o\nUint8 n",
       "pascal_string[3] p",
       "Uint8[2] a\nUint8 b",
       "padding[1] pad\nUint8 a",
       "string[2] s\nchar c",
       "Uint8 a\nUint8 b\nUint8 a",
       "padding[1] padding1\nUint8 a",
       "# a record\nUint8 a",
       "<\n!\nint8 a\nopt o",
       "@\nUint8 a\nUint16 b",
       "Uint64 a",
       "Uint8 a\nUint8",
       "Uint8 [2] a $",
       "Uint8[2] a\nopt[2] o" })
  \cup In(Reversing, { "opt[2] o\nUint8 n", ">\nUint8 a\nopt[2] o" })
  \cup In(Stripping, { "opt[2] o\nUint8 n" })
  \cup In(Doubling, { "opt[2] o\nUint8 n" })
  \cup In(Failing, { "opt[2] o\nUint8 n" })

\* the calls of the constructor with a cgrr 1.1 style list
Lists ==
  { [format |-> << <<"a", "B">>, <<"padding1", "1x">>, <<"b", "B">> >>,
     massage_in |-> <<>>, massage_out |-> <<>>, byte_order |-> "<"],
    [format |-> << <<"padding1", "B">>, <<"a", "B">> >>,
     massage_in |-> <<>>, massage_out |-> <<>>, byte_order |-> "<"],
    [format |-> << <<"a", "H">>, <<"?", "?">> >>,
     massage_in |-> <<>>, massage_out |-> <<>>, byte_order |-> ">"],
    [format |-> << <<"n", "3s">> >>,
     massage_in |-> << <<"n", Function("strip_nul")>> >>, massage_out |-> <<>>, byte_order |-> "<"],
    [format |-> << <<"n", "2s">>, <<"padding", "x">> >>,
     massage_in |-> << <<"n", Reader(<< <<"hi", "B">>, <<"lo", "B">> >>, ">")>> >>,
     massage_out |-> << <<"n", Reader(<< <<"hi", "B">>, <<"lo", "B">> >>, ">")>> >>,
     byte_order |-> "<"],
    [format |-> << <<"v", "2B">> >>,
     massage_in |-> <<>>, massage_out |-> <<>>, byte_order |-> "<"],
    [format |-> << <<"v", "2z">> >>,
     massage_in |-> <<>>, massage_out |-> <<>>, byte_order |-> "<"] }

\* the second example of the docstring of from_offsets
Documented ==
  "\n<\n0x00 Uint32      score    # Score at index 0x00, before name\n"
  \o "0x04 string[16]  name\n"
  \o "0x24 options[6]  options  # A six byte field with a custom data format\n"
  \o "0x50 EOF\n"

\* the calls of FileReader.from_offsets(format_def): format texts of the offset
\* DSL, and the globals of the calling module
OffsetTexts ==
  In(NoHooks,
     { Documented,
       "<\n0x00 Uint8 a   # first\n0x02 opt[1] o\n0x03 EOF",
       "<\n0x00 Uint16 a\n>",
       "0x03 EOF\n0x02 opt[1] o\n<\n0x00 Uint8 a   # first",
       ">\n0x02 Uint16 b\n0x00 Uint8 a",
       "0x00 Uint64 a\n0x08 Uint8 b\n0x09 EOF",
       "0x00 Uint16 a\n0x01 Uint8 b",
       "0x00 Uint8 b\n0x00 Uint8 a",
       "0x01 Uint8 b\n0x01 EOF\n0x00 Uint8 a",
       "0x01 EOF\n0x00 Uint8 a\n0x02 Uint8 c",
       "0x00 EOF",
       "<",
       "0x00 Uint16 a\n0x01 EOF",
       "@\n0x00 Uint8 a\n0x01 Uint16 b",
       "0x0A opt[2] o",
       "0x00 Uint8 [2] a",
       "0x00 Uint8 a\n0x01" })
  \cup In(Reversing, { "0x00 Uint8 a\n0x01 opt[2] o", "0x0A opt[2] o" })

\* the calls of the legacy module's FileReader(format, byte_order=byte_order)
LegacyTexts ==
  { [format |-> t, gs |-> NoHooks, byte_order |-> o] :
      t \in { "Uint8 a\nUint16 b", ">\nUint16 a", "Uint16 a\n\nopt[1] o", "Uint16 a\n  " },
      o \in {"<", ">"} }

RECURSIVE SeqsOf(_, _)
SeqsOf(S, n) ==
  IF n = 0 THEN { <<>> } ELSE { <<x>> \o q : x \in S, q \in SeqsOf(S, n - 1) }

RECURSIVE Fill(_, _)
Fill(b, n) == IF n <= 0 THEN <<>> ELSE <<b>> \o Fill(b, n - 1)

\* The buffers handed to a reader whose struct has the given size: every buffer
\* of that size over the bytes 0..MaxByte (for a reader of more than MaxBuf bytes,
\* the buffers of one repeated byte), one a byte shorter and one a byte longer.
Buffers(size) ==
  (IF size <= MaxBuf THEN SeqsOf(0..MaxByte, size) ELSE { Fill(b, size) : b \in 0..MaxByte })
    \cup { Fill(1, size - 1), Fill(1, size + 1) }

ByteStrings == UNION { SeqsOf(0..1, n) : n \in 0..MaxStr }

\* The values a caller gives for a field with the format string f; h is the
\* field's entry of massage_out, if it has one.
Candidates(f, hasHook, h) ==
  LET items == FormatItems(f, 1).items
      c == IF items = <<>> THEN "x" ELSE items[1].c
  IN IF hasHook /\ ~h.callable
       THEN { PyDict(<< <<"hi", PyInt(x)>>, <<"lo", PyInt(y)>> >>) : x, y \in 0..1 }
     ELSE IF c \in {"s", "p", "c"} THEN { PyBytes(bs) : bs \in ByteStrings }
     ELSE IF c = "?" THEN { PyBool(TRUE), PyBool(FALSE), PyInt(1) }
     ELSE { PyInt(0), PyInt(MaxByte), PyInt(258), PyInt(-1) }

\* the one value given for a field past the first MaxKeys fields of a layout
Default(f) ==
  LET items == FormatItems(f, 1).items
      c == IF items = <<>> THEN "x" ELSE items[1].c
  IN IF c \in {"s", "p", "c"} THEN PyBytes(Fill(1, items[1].n))
     ELSE IF c = "?" THEN PyBool(TRUE)
     ELSE PyInt(1)

\* Every dictionary with the given keys in order: each of the first n keys with
\* one of its candidates, the others with their default.
RECURSIVE Dicts(_, _, _)
Dicts(self, keys, n) ==
  IF keys = <<>> THEN { <<>> }
  ELSE { << <<Head(keys), v>> >> \o d :
           v \in IF n = 0 THEN { Default(Get(self.format, Head(keys))) }
                 ELSE Candidates(Get(self.format, Head(keys)), Has(self.massage_out, Head(keys)),
                                 IF Has(self.massage_out, Head(keys))
                                 THEN Get(self.massage_out, Head(keys))
                                 ELSE Identity),
           d \in Dicts(self, Tail(keys), IF n = 0 THEN 0 ELSE n - 1) }

Without(q, i) == SubSeq(q, 1, i - 1) \o SubSeq(q, i + 1, Len(q))

\* The dictionaries handed to pack: the ones with a value for every field that
\* is not padding, the ones that lack one of these keys, and the ones that hold
\* a key more than the layout has.
Dictionaries(self) ==
  LET keys == FilterNotPadding(Keys(self.format))
      full == Dicts(self, keys, MaxKeys)
  IN full
     \cup { Without(d, i) : d \in full, i \in 1..Len(keys) }
     \cup { Append(d, <<"extra", PyInt(0)>>) : d \in full }

(***************************************************************************)
(* The state machine: one reader is built, then used                       *)
(*                                                                         *)
(*   platform  the machine                                                 *)
(*   built     "none", then "ok" or "error": whether the constructor made  *)
(*             a reader or raised                                          *)
(*   codec     the reader's attributes                                     *)
(*   origin    the constructor called and its arguments                    *)
(*   pc        "idle", or "returned" once a call of unpack or pack is back *)
(*   call      the call: its operation, and its argument; after tells      *)
(*             that the argument is the result of the call before it, and  *)
(*             then the other of data and dictionary is that call's        *)
(*             argument                                                    *)
(*   res       what the call returned or raised                            *)
(*   arg       the dictionary the caller handed to pack, as the call left  *)
(*             it                                                          *)
(***************************************************************************)
NoOrigin ==
  [ctor |-> "", text |-> "", gs |-> <<>>, format |-> <<>>, massage_in |-> <<>>,
   massage_out |-> <<>>, byte_order |-> "", err |-> ""]

NoCall == [op |-> "", data |-> <<>>, dictionary |-> <<>>, after |-> ""]

NoResult == [ok |-> FALSE, err |-> "", map |-> <<>>, bytes |-> <<>>]

Init ==
  /\ platform \in Platforms
  /\ codec = NoCodec
  /\ built = "none"
  /\ origin = NoOrigin
  /\ pc = "idle"
  /\ call = NoCall
  /\ res = NoResult
  /\ arg = <<>>

\* the constructor returns r
Construct(r, o) ==
  /\ built = "none"
  /\ built' = IF r.ok THEN "ok" ELSE "error"
  /\ codec' = r.codec
  /\ origin' = [o EXCEPT !.err = r.err]
  /\ UNCHANGED <<platform, pc, call, res, arg>>

\* FileReader(format) called from a module with the globals gs
New(format, gs) ==
  Construct(FileReader_text(format, gs), [NoOrigin EXCEPT !.ctor = "text", !.text = format, !.gs = gs])

\* FileReader(format, massage_in, massage_out, byte_order) with a list
NewFromList(a) ==
  Construct(FileReader_list(a.format, a.massage_in, a.massage_out, a.byte_order),
            [NoOrigin EXCEPT !.ctor = "list", !.format = a.format, !.massage_in = a.massage_in,
                             !.massage_out = a.massage_out, !.byte_order = a.byte_order])

\* the constructor returns r on the machine plat
ConstructOn(plat, r, o) == platform = plat /\ Construct(r, o)

\* FileReader.from_offsets(format_def) called, on the machine plat, from a
\* module with the globals gs
NewFromOffsets(format_def, gs, plat) ==
  ConstructOn(plat, FileReader_from_offsets(format_def, plat),
              [NoOrigin EXCEPT !.ctor = "offsets", !.text = format_def, !.gs = gs])

\* FileReader(format, byte_order=byte_order) of the legacy module
NewLegacy(format, byte_order, gs) ==
  Construct(LegacyFileReader_text(format, byte_order, gs),
            [NoOrigin EXCEPT !.ctor = "legacy", !.text = format, !.byte_order = byte_order, !.gs = gs])

\* reader.unpack(data)
Unpack(data) ==
  /\ built = "ok" /\ pc = "idle"
  /\ pc' = "returned"
  /\ call' = [NoCall EXCEPT !.op = "unpack", !.data = data]
  /\ res' = FileReader_unpack(codec, data, platform)
  /\ arg' = <<>>
  /\ UNCHANGED <<platform, codec, built, origin>>

\* reader.pack(dictionary)
Pack(dictionary) ==
  /\ built = "ok" /\ pc = "idle"
  /\ pc' = "returned"
  /\ call' = [NoCall EXCEPT !.op = "pack", !.dictionary = dictionary]
  /\ res' = FileReader_pack(codec, dictionary, platform)
  /\ arg' = DictionaryAfterPack(codec, dictionary, platform)
  /\ UNCHANGED <<platform, codec, built, origin>>

\* reader.pack(reader.unpack(data))
PackUnpacked ==
  /\ pc = "returned" /\ call.op = "unpack" /\ call.after = "" /\ res.ok
  /\ call' = [op |-> "pack", data |-> call.data, dictionary |-> res.map, after |-> "unpack"]
  /\ res' = FileReader_pack(codec, res.map, platform)
  /\ arg' = DictionaryAfterPack(codec, res.map, platform)
  /\ UNCHANGED <<platform, codec, built, origin, pc>>

\* reader.unpack(reader.pack(dictionary))
UnpackPacked ==
  /\ pc = "returned" /\ call.op = "pack" /\ call.after = "" /\ res.ok
  /\ call' = [op |-> "unpack", data |-> res.bytes, dictionary |-> call.dictionary, after |-> "pack"]
  /\ res' = FileReader_unpack(codec, res.bytes, platform)
  /\ UNCHANGED <<platform, codec, built, origin, pc, arg>>

\* the caller is done with the result
Return ==
  /\ pc = "returned"
  /\ pc' = "idle"
  /\ call' = NoCall
  /\ res' = NoResult
  /\ arg' = <<>>
  /\ UNCHANGED <<platform, codec, built, origin>>

Next ==
  \/ \E a \in Texts : New(a.format, a.gs)
  \/ \E a \in Lists : NewFromList(a)
  \/ \E a \in OffsetTexts, plat \in Platforms : NewFromOffsets(a.format, a.gs, plat)
  \/ \E a \in LegacyTexts : NewLegacy(a.format, a.byte_order, a.gs)
  \/ built = "ok" /\ pc = "idle" /\ \E data \in Buffers(calcsize(codec.fmt, platform)) : Unpack(data)
  \/ built = "ok" /\ pc = "idle" /\ \E dictionary \in Dictionaries(codec) : Pack(dictionary)
  \/ PackUnpacked
  \/ UnpackPacked
  \/ Return

Spec == Init /\ [][Next]_vars

(***************************************************************************)
(* What the claims speak of                                                *)
(***************************************************************************)
\* a call of op has returned; after is "" for a call with an argument of the
\* caller's, and the operation before it when the argument is that one's result
Done(op, after) == pc = "returned" /\ call.op = op /\ call.after = after

\* the names of the layout that do not begin with 'padding'
NonPaddingKeys(self) == FilterNotPadding(Keys(self.format))

\* the compiled record length
RecordLength(self, plat) == calcsize(self.fmt, plat)

\* the number of values the field's own format string stands for
FieldValues(self, f, plat) == CountValues(StructSegments(self.byte_order \o f, plat))

\* The names and the values of the layout line up: a field whose name does not
\* begin with 'padding' holds one value, a field whose name does holds none.
Aligned(self, plat) ==
  \A i \in 1..Len(self.format) :
    FieldValues(self, self.format[i][2], plat) = IF NotPadding(self.format[i][1]) THEN 1 ELSE 0

\* the raw values struct reads from the buffer, under the names unpack gives them
Raw(self, data, plat) ==
  DictOf(Zip(NonPaddingKeys(self), struct_unpack(self.fmt, plat, data).vals), <<>>)

\* a buffer that struct, reading it and writing what it read, gives back: its
\* pad bytes are zero, its bool bytes 0 or 1, its pascal strings in their one
\* written form
Canonical(self, data, plat) ==
  LET u == struct_unpack(self.fmt, plat, data)
      p == struct_pack(self.fmt, plat, u.vals)
  IN u.ok /\ p.ok /\ p.bytes = data

\* the dictionary pack hands to struct: massage_out applied to the caller's
Encoded(self, dictionary, plat) ==
  IF self.massage_out # <<>> THEN MassageOut(self, Keys(dictionary), dictionary, <<>>, plat)
  ELSE Mapping(dictionary)

\* the dictionary unpack returns for the raw one: massage_in applied to it
Decoded(self, dictionary, plat) ==
  IF self.massage_in # <<>> THEN MassageIn(self, Keys(dictionary), dictionary, plat)
  ELSE Mapping(dictionary)

\* the value v is one struct packs into a field of the format string f
ValueFits(self, f, v, plat) == struct_pack(self.byte_order \o f, plat, <<v>>).ok

\* the dictionary has a key for every name that does not begin with 'padding',
\* and no other key
HasTheKeys(self, dictionary) ==
  KeySet(dictionary) = { NonPaddingKeys(self)[i] : i \in 1..Len(NonPaddingKeys(self)) }

(***************************************************************************)
(* C1: the byte-side round trip                                            *)
(***************************************************************************)
\* the encode hooks give back, for the values unpack returned, the raw values
Undone(self, data, dictionary, plat) ==
  LET out == Encoded(self, dictionary, plat)
  IN out.ok /\ DictEq(out.map, Raw(self, data, plat))

FillsItem(seg, v) ==
  CASE seg.c = "s" -> v.k = "bytes" /\ Len(v.b) = seg.size
    [] seg.c = "p" -> v.k = "bytes" /\ Len(v.b) <= seg.size - 1
    [] seg.c = "?" -> v.k \in {"int", "bool"} /\ v.n \in {0, 1}
    [] OTHER -> TRUE

\* the value segments of a layout, in order
RECURSIVE ValueSegments(_)
ValueSegments(segs) ==
  IF segs = <<>> THEN <<>>
  ELSE (IF Head(segs).val THEN <<Head(segs)>> ELSE <<>>) \o ValueSegments(Tail(segs))

\* The mapping has exactly the keys of the layout, the values handed to struct
\* fill their items as they are, and the decode hooks give back the mapping's
\* values for what the encode hooks made of them.
Exact(self, dictionary, plat) ==
  LET out == Encoded(self, dictionary, plat)
      vals == Lookup(out.map, NonPaddingKeys(self))
      segs == ValueSegments(StructSegments(self.fmt, plat))
      back == Decoded(self, out.map, plat)
  IN /\ HasTheKeys(self, dictionary)
     /\ out.ok /\ vals.ok /\ Len(vals.vals) = Len(segs)
     /\ \A i \in 1..Len(segs) : FillsItem(segs[i], vals.vals[i])
     /\ back.ok /\ DictEq(back.map, dictionary)

\* C2 as stated: for every reader and every mapping m that pack accepts,
\* unpack(pack(m)) has the keys of m and the same value for every key.
C2_Original == Done("unpack", "pack") => res.ok /\ DictEq(res.map, call.dictionary)

\* C2, amended: unpack(pack(m)) equals m for every mapping m that pack accepts
\* whose keys are exactly the layout's names that do not begin with 'padding',
\* whose byte strings have the size of their fields (a pascal string at most the
\* size less one), whose bools are 0, 1, False or True, and whose hooked values
\* the decode hook gives back from the encode hook's result. (A shorter byte
\* string comes back filled with zero bytes, a key the layout lacks is dropped.)
C2_Amended ==
  (Done("unpack", "pack") /\ Exact(codec, call.dictionary, platform))
  => res.ok /\ DictEq(res.map, call.dictionary)

\* a mapping with a hooked value unpacked from its own bytes
C2_Witness ==
  /\ Done("unpack", "pack")
  /\ codec.massage_out # <<>>
  /\ Len(codec.format) > 1
  /\ Exact(codec, call.dictionary, platform)
  /\ res.ok /\ DictEq(res.map, call.dictionary)

(***************************************************************************)
(* C3: padding fields are left out                                         *)
(***************************************************************************)
\* the mapping has exactly the keys that do not begin with 'padding', and every
\* value, after its encode hook, is one its own field takes
WellFormed(self, dictionary, plat) ==
  LET out == Encoded(self, dictionary, plat)
  IN /\ HasTheKeys(self, dictionary)
     /\ out.ok
     /\ \A i \in 1..Len(self.format) :
          NotPadding(self.format[i][1])
            => ValueFits(self, self.format[i][2], Get(out.map, self.format[i][1]), plat)

\* C3 as stated: no key that begins with 'padding' is in the mapping unpack
\* returns, and pack succeeds on a mapping that has no key for the fields whose
\* names begin with 'padding'.
C3_Original ==
  /\ (pc = "returned" /\ call.op = "unpack" /\ res.ok)
       => \A i \in 1..Len(res.map) : NotPadding(res.map[i][1])
  /\ (Done("pack", "") /\ WellFormed(codec, call.dictionary, platform)) => res.ok

(***************************************************************************)
(* C4: the unknown fields from_offsets fills the gaps with                 *)
(***************************************************************************)
\* the lines of a text that are not blank, stripped
RECURSIVE Lines(_)
Lines(lines) ==
  IF lines = <<>> THEN <<>>
  ELSE (IF Strip(Head(lines)) = "" THEN <<>> ELSE <<Strip(Head(lines))>>) \o Lines(Tail(lines))

\* the line is a byte order statement of the offset DSL
IsByteOrder(line) == offsets_parser(line).ok /\ offsets_parser(line).none

\* the byte order an offset text declares: that of its last byte order
\* statement, and '<' when it has none
RECURSIVE DeclaredOrder(_, _)
DeclaredOrder(lines, order) ==
  IF lines = <<>> THEN order
  ELSE DeclaredOrder(Tail(lines), IF IsByteOrder(Head(lines)) THEN offsets_parser(Head(lines)).text
                                  ELSE order)

\* the (offset, statement) pairs of an offset text, by ascending offset
Declared(text) ==
  Sort(OffsetLines(SplitLines(text), [new_format |-> "<\n", statements |-> <<>>, err |-> ""]).statements)

IsEOF(s) == Strip(s[2]) = "EOF"

\* the bytes the field of a statement takes in a record of the given byte order
DeclaredSize(s, order, plat) ==
  IF IsEOF(s) THEN 0 ELSE calcsize(order \o cgrr_parser(s[2]).fmt, plat)

\* every statement declares a field or the end, and none begins before the end
\* of the field declared before it
NoOverlap(statements, order, plat) ==
  /\ \A i \in 1..Len(statements) :
       IsEOF(statements[i])
       \/ (cgrr_parser(statements[i][2]).ok /\ cgrr_parser(statements[i][2]).kind # "_BYTE_ORDER")
  /\ \A i \in 1..(Len(statements) - 1) :
       statements[i][1] + DeclaredSize(statements[i], order, plat) <= statements[i + 1][1]

\* The layout the claim describes: the declared fields by ascending offset, each
\* at its offset, and an unknown field unk1, unk2, ... over every range of bytes
\* between the end of a field and the offset of the next statement.
RECURSIVE GapFilled(_, _, _, _, _)
GapFilled(statements, position, unknowns, order, plat) ==
  IF statements = <<>> THEN <<>>
  ELSE LET s == Head(statements)
           gap == s[1] > position
           unk == IF gap THEN << <<"unk" \o Str(unknowns + 1), Str(s[1] - position) \o "s">> >>
                  ELSE <<>>
           r == cgrr_parser(s[2])
       IN IF IsEOF(s) THEN unk
          ELSE unk \o << <<r.name, r.fmt>> >>
               \o GapFilled(Tail(statements), s[1] + DeclaredSize(s, order, plat),
                            IF gap THEN unknowns + 1 ELSE unknowns, order, plat)

\* C4 as stated: for an offset text whose declared fields do not overlap,
\* from_offsets gives the layout of the plain text that has the declared fields
\* by ascending offset, each at its declared offset, and one unknown field unk1,
\* unk2, ... over every range of bytes no field covers.
C4_Original ==
  (pc = "idle" /\ origin.ctor = "offsets" /\ built = "ok"
     /\ NoOverlap(Declared(origin.text), DeclaredOrder(Lines(SplitLines(origin.text)), "<"), platform))
  => /\ codec.byte_order = DeclaredOrder(Lines(SplitLines(origin.text)), "<")
     /\ codec.format = GapFilled(Declared(origin.text), 0, 0, codec.byte_order, platform)

\* C4, the documented example: from_offsets fills it with exactly two unknown
\* fields, unk1 of 16 bytes and unk2 of 38 bytes.
C4_Documented ==
  (origin.ctor = "offsets" /\ origin.text = Documented)
  => /\ built = "ok"
     /\ codec.format = << <<"score", "I">>, <<"name", "16s">>, <<"unk1", "16s">>,
                          <<"options", "6s">>, <<"unk2", "38s">> >>
     /\ codec.fmt = "<I16s16s6s38s"

(***************************************************************************)
(* C5: the order of the offset statements in the text                      *)
(***************************************************************************)
RECURSIVE Orderings(_)
Orderings(q) ==
  IF q = <<>> THEN { <<>> }
  ELSE UNION { { <<q[i]>> \o r : r \in Orderings(Without(q, i)) } : i \in 1..Len(q) }

RECURSIVE JoinLines(_)
JoinLines(lines) ==
  IF lines = <<>> THEN "" ELSE Head(lines) \o "\n" \o JoinLines(Tail(lines))

\* the texts that have the lines of the text in another order, the byte order
\* statements in the order they have among themselves
Reordered(text) ==
  { JoinLines(q) : q \in { r \in Orderings(Lines(SplitLines(text))) :
                             SelectSeq(r, IsByteOrder) = SelectSeq(Lines(SplitLines(text)), IsByteOrder) } }

\* C5: from_offsets compiles an offset text and every text that has its offset
\* statements in another order to the same layout: the same fields in the same
\* order, the same unknown fields, the same byte order, the same hooks; and it
\* raises on all of them when it raises on one.
C5_OrderIndependent ==
  (pc = "idle" /\ origin.ctor = "offsets")
  => \A t \in Reordered(origin.text) :
       /\ FileReader_from_offsets(t, platform).ok = (built = "ok")
       /\ FileReader_from_offsets(t, platform).codec = codec

\* a reader compiled from a text whose statements are not in ascending order and
\* which from_offsets fills a gap of
C5_Witness ==
  /\ pc = "idle" /\ origin.ctor = "offsets" /\ built = "ok"
  /\ LET st == OffsetLines(SplitLines(origin.text),
                           [new_format |-> "<\n", statements |-> <<>>, err |-> ""]).statements
     IN st # Sort(st) /\ Len(st) >= 3
  /\ Has(codec.format, "unk1")

(***************************************************************************)
(* C6: the length of the buffer                                            *)
(***************************************************************************)
\* C6: unpack of a buffer shorter or longer than the compiled record length
\* raises (struct.error) and returns no mapping.
C6_LengthEnforced ==
  (pc = "returned" /\ call.op = "unpack" /\ Len(call.data) # RecordLength(codec, platform))
  => ~res.ok /\ res.err = "struct.error" /\ res.map = <<>>

\* unpack has raised on a buffer one byte longer than the record
C6_Witness ==
  /\ Done("unpack", "")
  /\ Len(call.data) = RecordLength(codec, platform) + 1
  /\ ~res.ok /\ res.err = "struct.error"

(***************************************************************************)
(* C7: a missing key, and a key the layout lacks                           *)
(***************************************************************************)
\* the dictionary without its key k
RECURSIVE Dropped(_, _)
Dropped(d, k) ==
  IF d = <<>> THEN <<>>
  ELSE (IF Head(d)[1] = k THEN <<>> ELSE <<Head(d)>>) \o Dropped(Tail(d), k)

\* the keys of the dictionary that neither the layout nor its hooks name
Foreign(self, dictionary) ==
  { k \in KeySet(dictionary) : ~Has(self.format, k) /\ ~Has(self.massage_out, k) }

\* C7: pack raises, and returns no bytes, when the mapping lacks a key for a
\* field whose name does not begin with 'padding'; a key of the mapping that the
\* layout lacks changes nothing: pack returns, or raises, what it does without it.
C7_MissingField ==
  Done("pack", "")
  => /\ (\E i \in 1..Len(codec.format) :
           NotPadding(codec.format[i][1]) /\ ~Has(call.dictionary, codec.format[i][1]))
          => ~res.ok /\ res.bytes = <<>>
     /\ \A k \in Foreign(codec, call.dictionary) :
          res = FileReader_pack(codec, Dropped(call.dictionary, k), platform)

\* pack has raised KeyError on a mapping that lacks one field of two
C7_Witness ==
  /\ Done("pack", "")
  /\ Len(NonPaddingKeys(codec)) = 2 /\ Len(call.dictionary) = 1
  /\ Has(codec.format, call.dictionary[1][1])
  /\ ~res.ok /\ res.err = "KeyError"

(***************************************************************************)
(* C8: the bytes a hook is given, and the bytes it gives                   *)
(***************************************************************************)
\* the place of the name k in the layout
IndexOf(self, k) == CHOOSE i \in 1..Len(self.format) : self.format[i][1] = k

\* the size of the field k, whose format string is that of one s item
Width(self, k) == FormatItems(Get(self.format, k), 1).items[1].n

\* the bytes of the field k in a record: those before the end of the layout cut
\* after k
FieldBytes(self, k, data, plat) ==
  LET end == calcsize(self.byte_order \o Join(SubSeq(Values(self.format), 1, IndexOf(self, k))), plat)
  IN SubSeq(data, end - Width(self, k) + 1, end)

\* what the hook h makes of the value v: the function's result, or the result of
\* the unpack or pack method of a reader
Hooked(h, v, plat, op) ==
  IF h.callable THEN CallFunction(h.fn, v)
  ELSE LET sub == IF op = "unpack" /\ v.k = "bytes" THEN FileReader_unpack(HookReader(h), v.b, plat)
                  ELSE IF op = "pack" /\ v.k = "dict" THEN FileReader_pack(HookReader(h), v.d, plat)
                  ELSE Exception("TypeError")
       IN IF ~sub.ok THEN Raised(sub.err)
          ELSE IF op = "unpack" THEN Returned(PyDict(sub.map))
          ELSE Returned(PyBytes(sub.bytes))

\* the fields that have an encode hook
EncodedFields(self) == { k \in KeySet(self.format) : Has(self.massage_out, k) }

\* the fields that have a decode hook
DecodedFields(self) == { k \in KeySet(self.format) : Has(self.massage_in, k) }

\* every encode hook returns a byte string for the mapping's value, and every
\* other value is one its field takes
Encodable(self, dictionary, plat) ==
  /\ HasTheKeys(self, dictionary)
  /\ \A k \in KeySet(dictionary) :
       IF Has(self.massage_out, k)
       THEN LET got == Hooked(Get(self.massage_out, k), Get(dictionary, k), plat, "pack")
            IN got.ok /\ got.val.k = "bytes"
       ELSE ValueFits(self, Get(self.format, k), Get(dictionary, k), plat)

FieldStatements(o) ==
  IF o.ctor = "offsets"
  THEN [i \in 1..Len(Declared(o.text)) |-> Declared(o.text)[i][2]]
  ELSE Lines(SplitLines(o.text))

\* C9 as stated: a reader built from a text, by the constructor or by
\* from_offsets, has for every field of a custom type T the decode hook parse_T
\* and the encode hook unparse_T of the caller's scope, and the identity where
\* the scope has none.
C9_Original ==
  (pc = "idle" /\ built = "ok" /\ origin.ctor \in {"text", "offsets"})
  => \A i \in 1..Len(FieldStatements(origin)) :
       LET r == cgrr_parser(FieldStatements(origin)[i])
       IN (r.ok /\ r.kind \notin {"_BUILTIN", "_BYTE_ORDER"})
          => /\ Get(codec.massage_in, r.name) = ScopeGet(origin.gs, "parse_" \o r.kind)
             /\ Get(codec.massage_out, r.name) = ScopeGet(origin.gs, "unparse_" \o r.kind)

(***************************************************************************)
(* C10: the byte order of a reader built from a text                       *)
(***************************************************************************)
\* the byte order a plain text declares: that of its last byte order statement,
\* and '<' when it has none
RECURSIVE PlainOrder(_, _)
PlainOrder(lines, order) ==
  IF lines = <<>> THEN order
  ELSE PlainOrder(Tail(lines),
                  IF cgrr_parser(Head(lines)).ok /\ cgrr_parser(Head(lines)).kind = "_BYTE_ORDER"
                  THEN cgrr_parser(Head(lines)).bo ELSE order)

\* C10 as stated: the format string of a reader built from a text begins with
\* the byte order the text declares, '<' when it declares none, whatever the
\* byte_order argument is; and the reader's byte_order is that prefix.
C10_Original ==
  (pc = "idle" /\ built = "ok" /\ origin.ctor \in {"text", "offsets", "legacy"})
  => /\ Prefix(codec.fmt, 1) = codec.byte_order
     /\ codec.byte_order = IF origin.ctor = "offsets"
                           THEN DeclaredOrder(Lines(SplitLines(origin.text)), "<")
                           ELSE PlainOrder(Lines(SplitLines(origin.text)), "<")

(***************************************************************************)
(* C11: the values unpack gives the names                                  *)
(***************************************************************************)
\* the values struct reads from the bytes of the field k alone: those of the
\* field's own format string, read from the field's own range of the record
OwnValues(self, k, data, plat) ==
  LET order == FormatOrder(self.fmt)
      f == Get(self.format, k)
      end == calcsize(order \o Join(SubSeq(Values(self.format), 1, IndexOf(self, k))), plat)
      size == calcsize(order \o f, plat)
  IN struct_unpack(order \o f, plat, SubSeq(data, end - size + 1, end)).vals

\* unpack gives the field k the value read from the field's own bytes (the first
\* of them for a field of several values), handed to the field's decode hook if
\* it has one
OwnValue(self, k, data, dictionary, plat) ==
  /\ Has(dictionary, k)
  /\ OwnValues(self, k, data, plat) # <<>>
  /\ LET v == OwnValues(self, k, data, plat)[1]
     IN IF Has(self.massage_in, k)
        THEN LET got == Hooked(Get(self.massage_in, k), v, plat, "unpack")
             IN got.ok /\ PyEq(Get(dictionary, k), got.val)
        ELSE PyEq(Get(dictionary, k), v)

\* C11 as stated: for every layout and every buffer of the record length, the
\* mapping unpack returns has exactly the names that do not begin with 'padding',
\* each with the value read from the field's own bytes, also for a field with a
\* repeat count and for any pair of name and type.
C11_Original ==
  (Done("unpack", "") /\ Len(call.data) = RecordLength(codec, platform) /\ res.ok)
  => /\ HasTheKeys(codec, res.map)
     /\ \A k \in KeySet(res.map) : OwnValue(codec, k, call.data, res.map, platform)

\* C11 in the layouts whose names and values line up (one value for every name
\* that does not begin with 'padding', none for the others): there unpack gives
\* every name the value of its own bytes.
C11_AlignedLayouts ==
  (Done("unpack", "") /\ Len(call.data) = RecordLength(codec, platform) /\ res.ok
     /\ Aligned(codec, platform))
  => /\ HasTheKeys(codec, res.map)
     /\ \A k \in KeySet(res.map) : OwnValue(codec, k, call.data, res.map, platform)

(***************************************************************************)
(* C12: the fields of a reader built from a plain text                     *)
(***************************************************************************)
\* the (name, format string) pairs of the variable statements of a plain text,
\* in the order of the text
RECURSIVE VariableStatements(_)
VariableStatements(lines) ==
  IF lines = <<>> THEN <<>>
  ELSE LET r == cgrr_parser(Head(lines))
       IN (IF r.ok /\ r.kind # "_BYTE_ORDER" THEN << <<r.name, r.fmt>> >> ELSE <<>>)
          \o VariableStatements(Tail(lines))

\* the sum of the sizes of the fields, each in the byte order of the layout
RECURSIVE SumOfSizes(_, _, _)
SumOfSizes(fields, order, plat) ==
  IF fields = <<>> THEN 0
  ELSE calcsize(order \o Head(fields)[2], plat) + SumOfSizes(Tail(fields), order, plat)

\* no two fields of the list have the same name
UniqueNames(fields) ==
  \A i, j \in 1..Len(fields) : fields[i][1] = fields[j][1] => i = j

\* the layout has one field for every variable statement, in their order, its
\* format string is their format strings one after the other, and its record
\* length is the sum of their sizes
KeepsEvery(self, statements, plat) ==
  /\ self.format = statements
  /\ UniqueNames(self.format)
  /\ self.fmt = self.byte_order \o Join(Values(statements))
  /\ RecordLength(self, plat) = SumOfSizes(statements, self.byte_order, plat)

\* C12 as stated: a reader built from a plain text has one field for every
\* variable statement of the text, in the order of the text, under names that
\* are unique; its format string joins the format strings of all the statements
\* and its record length is the sum of the sizes of all the declared fields,
\* also when two statements declare the same name.
C12_Original ==
  (pc = "idle" /\ built = "ok" /\ origin.ctor = "text")
  => KeepsEvery(codec, VariableStatements(Lines(SplitLines(origin.text))), platform)

\* C12 for the texts whose statements declare different names, in a byte order
\* that does not align the fields: there the reader keeps every statement.
C12_DistinctNames ==
  (pc = "idle" /\ built = "ok" /\ origin.ctor = "text"
     /\ UniqueNames(VariableStatements(Lines(SplitLines(origin.text))))
     /\ codec.byte_order # "@")
  => KeepsEvery(codec, VariableStatements(Lines(SplitLines(origin.text))), platform)

(***************************************************************************)
(* C13: the EOF statement and the record length                            *)
(***************************************************************************)
\* position, unknowns and new_lines as from_offsets has them after the first k
\* of the sorted statements
WalkTo(statements, k, plat) ==
  Walk(SubSeq(statements, 1, k),
       [position |-> 0, unknowns |-> 0, new_lines |-> <<>>, err |-> "",
        mow |-> Len(HexDigits(statements[Len(statements)][1]))],
       plat)

\* the format strings of the lines from_offsets has emitted
EmittedFormats(new_lines) ==
  [i \in 1..Len(new_lines) |-> cgrr_parser(new_lines[i][1] \o " " \o new_lines[i][2]).fmt]

\* the size of the fields emitted so far, in a record of the given byte order
EmittedSize(w, order, plat) == calcsize(order \o Join(EmittedFormats(w.new_lines)), plat)

\* the first EOF statement among the sorted statements, 0 if there is none
FirstEOF(statements) ==
  IF \E i \in 1..Len(statements) : IsEOF(statements[i])
  THEN CHOOSE i \in 1..Len(statements) :
         IsEOF(statements[i]) /\ \A j \in 1..(i - 1) : ~IsEOF(statements[j])
  ELSE 0

\* what C13 says of the walk over the statements, for a record of the given
\* byte order
EOFEndsRecord(self, statements, order, plat) ==
  LET n == Len(statements)
      e == FirstEOF(statements)
  IN /\ e > 0 => /\ WalkTo(statements, n, plat).new_lines = WalkTo(statements, e, plat).new_lines
                 /\ RecordLength(self, plat) = statements[e][1]
     /\ e = 0 => RecordLength(self, plat)
                   = statements[n][1] + DeclaredSize(statements[n], order, plat)
     /\ \A k \in 1..n :
          /\ WalkTo(statements, k, plat).position >= WalkTo(statements, k - 1, plat).position
          /\ WalkTo(statements, k, plat).position
               = EmittedSize(WalkTo(statements, k, plat), order, plat)

\* C13 as stated: with an EOF statement no statement sorted after it gives a
\* field and the record length is the EOF offset; without one the record length
\* is the end offset of the last declared field; and all through the walk the
\* position never decreases and is the size of the fields emitted so far.
C13_Original ==
  (pc = "idle" /\ built = "ok" /\ origin.ctor = "offsets")
  => EOFEndsRecord(codec, Declared(origin.text), codec.byte_order, platform)

\* C13 for the texts whose declared fields do not overlap, in a byte order that
\* does not align the fields, on a machine whose long has the 4 bytes of the
\* standard size: there the statement holds.
C13_NoOverlap ==
  (pc = "idle" /\ built = "ok" /\ origin.ctor = "offsets"
     /\ NoOverlap(Declared(origin.text), codec.byte_order, platform)
     /\ codec.byte_order # "@" /\ platform.long = 4)
  => EOFEndsRecord(codec, Declared(origin.text), codec.byte_order, platform)

(***************************************************************************)
(* C14: offset statements that overlap                                     *)
(***************************************************************************)
\* a declared field ends after the offset of the statement sorted next (a field
\* or the EOF statement)
Overlapping(statements, order, plat) ==
  \E i \in 1..(Len(statements) - 1) :
    /\ ~IsEOF(statements[i])
    /\ \A j \in 1..i : ~IsEOF(statements[j])
    /\ statements[i][1] + DeclaredSize(statements[i], order, plat) > statements[i + 1][1]

\* the offset of the field k in the compiled record
FieldOffset(self, k, plat) ==
  calcsize(FormatOrder(self.fmt) \o Join(SubSeq(Values(self.format), 1, IndexOf(self, k))), plat)
    - calcsize(FormatOrder(self.fmt) \o Get(self.format, k), plat)

\* every field declared before the EOF statement is in the layout, at the offset
\* declared for it
AtDeclaredOffsets(self, statements, plat) ==
  \A i \in 1..Len(statements) :
    (\A j \in 1..i : ~IsEOF(statements[j]))
    => /\ Has(self.format, cgrr_parser(statements[i][2]).name)
       /\ FieldOffset(self, cgrr_parser(statements[i][2]).name, plat) = statements[i][1]

\* C14 as stated: from_offsets raises, and gives no reader, for a text in which
\* a declared field ends after the next declared offset (the EOF offset too);
\* it never gives a layout in which a declared field is at another offset than
\* the one declared for it.
C14_Original ==
  (pc = "idle" /\ origin.ctor = "offsets" /\ built # "none")
  => /\ Overlapping(Declared(origin.text), DeclaredOrder(Lines(SplitLines(origin.text)), "<"), platform)
          => built = "error"
     /\ built = "ok" => AtDeclaredOffsets(codec, Declared(origin.text), platform)

(***************************************************************************)
(* C16: statements that declare the same offset                            *)
(***************************************************************************)
\* the (offset, text) statements of an offset text, in the order of the text
InSourceOrder(text) ==
  OffsetLines(SplitLines(text), [new_format |-> "<\n", statements |-> <<>>, err |-> ""]).statements

\* the name k is that of a field a statement of the text declares
IsDeclared(text, k) ==
  \E i \in 1..Len(InSourceOrder(text)) :
    ~IsEOF(InSourceOrder(text)[i]) /\ cgrr_parser(InSourceOrder(text)[i][2]).name = k

\* the place, in the text, of the statement that declares the field k
StatementOf(text, k) ==
  CHOOSE i \in 1..Len(InSourceOrder(text)) :
    ~IsEOF(InSourceOrder(text)[i]) /\ cgrr_parser(InSourceOrder(text)[i][2]).name = k

\* the pairs of declared fields of the layout, the first before the second
LaidOutPairs(self, text) ==
  { p \in (1..Len(self.format)) \X (1..Len(self.format)) :
      /\ p[1] < p[2]
      /\ IsDeclared(text, self.format[p[1]][1])
      /\ IsDeclared(text, self.format[p[2]][1]) }

\* the statement that declares the i-th field of the layout
Declaring(self, text, i) == InSourceOrder(text)[StatementOf(text, self.format[i][1])]

====
